---- MODULE Spec2Model ----
(***************************************************************************)
(* The two s-expression parsers of lisp_parser:                            *)
(*   - src/src/lisp_parser.rs  (LispParser with ProgramWrapper and Slicer; *)
(*     look-ahead character handed back by every sub-parser),              *)
(*   - src/src/lib.rs, inline module lisp_parser (LispParser that shrinks  *)
(*     self.program with slice / set_program),                             *)
(* and the position tracker both share (Iterator::next).                   *)
(*                                                                         *)
(* A text is a sequence of characters; a character is a one-element        *)
(* string token.  Byte offsets are computed from the UTF-8 width of each   *)
(* character, so str slicing by byte index can fail as it does in Rust.    *)
(* A Vec<LispObject> is kept flat: String(s) is one token, List(v) is the  *)
(* tokens of v between a ListBegin and a ListEnd token.                    *)
(***************************************************************************)
EXTENDS Integers, Sequences, FiniteSets, TLC

\* Longest input text of the parser specifications.
MaxLen == 5
\* Longest text fed to the position trackers.
MaxTrack == 5
\* Objects the lib.rs parser may push before the model stops following it.
MaxObjects == 3

LF == "\n"
QUOTE == "\""
\* One character that UTF-8 encodes in two bytes (U+00E9).
Eacute == "U+00E9"

\* Characters of the input texts of the parsers.
ParserChars == {"a", " ", LF, "(", ")", QUOTE, Eacute}
\* Characters fed to the position trackers.
TrackerChars == {"a", " ", LF, "\t", "\r", Eacute}

None == 0

VARIABLES
    input,              \* the text handed to the parser
    program,            \* LispParser.program
    program_wrapper,    \* program_iterator (characters consumed), text_position, last_character_was_a_newline
    list,               \* parse_program's local list
    frames,             \* the active parse_list calls: list and opening_parenthesis_position
    current_character,  \* the (index, character) local of the loops, as a character number, None at end
    dispatched,         \* the character parse_object last matched on
    parsed_lisp_object, \* the ParsedLispObject last returned by parse_word / parse_string / parse_list
    result,             \* what parse_program returned
    pc,                 \* "start", "loop", "done"
    round,              \* 1: parsing the input, 2: parsing the rendering of the first result
    first,              \* the tree of round 1
    consumed,           \* tracker specification: the characters consumed so far
    tracker,            \* the tracker started by ProgramWrapper::new
    lib_tracker         \* the tracker started by lib.rs LispParser::new

vars == <<input, program, program_wrapper, list, frames, current_character,
          dispatched, parsed_lisp_object, result, pc, round, first,
          consumed, tracker, lib_tracker>>

parser_vars == <<input, program, program_wrapper, list, frames, current_character,
                 dispatched, parsed_lisp_object, result, pc, round, first>>

tracker_vars == <<consumed, tracker, lib_tracker>>

----------------------------------------------------------------------------
\* Characters and byte offsets

\* char::is_whitespace on the characters of the model
is_whitespace(c) == c \in {" ", LF, "\t", "\r"}

\* char::len_utf8
len_utf8(c) == IF c = Eacute THEN 2 ELSE 1

RECURSIVE ByteLen(_)
\* str::len: the number of bytes of a text
ByteLen(s) == IF s = <<>> THEN 0 ELSE len_utf8(Head(s)) + ByteLen(Tail(s))

\* The index CharIndices gives the k-th character (k from 1): the bytes before it.
ByteIndex(s, k) == ByteLen(SubSeq(s, 1, k - 1))

\* str::is_char_boundary
is_char_boundary(s, b) == \E k \in 1..(Len(s) + 1) : ByteIndex(s, k) = b

\* &s[from..end] by byte offsets: the characters lying in the range, or a panic
\* when an end of the range is no character boundary or lies outside the text.
StrRange(s, from, end) ==
    IF from <= end /\ is_char_boundary(s, from) /\ is_char_boundary(s, end)
    THEN [ok |-> TRUE,
          string |-> SubSeq(s, (CHOOSE k \in 1..(Len(s) + 1) : ByteIndex(s, k) = from),
                               (CHOOSE k \in 1..(Len(s) + 1) : ByteIndex(s, k) = end) - 1)]
    ELSE [ok |-> FALSE, string |-> <<>>]

----------------------------------------------------------------------------
\* Position tracker

\* ProgramWrapper::new: the tracker before any character
WrapperNew == [line |-> 0, column |-> 1, last_character_was_a_newline |-> TRUE]

\* lib.rs LispParser::new: the tracker before any character
LibNew == [line |-> 1, column |-> 1, last_character_was_a_newline |-> FALSE]

\* A tracker that also takes a carriage return for a line end.
AdvanceCarriageReturn(t, c) ==
    LET moved == IF t.last_character_was_a_newline
                 THEN [t EXCEPT !.last_character_was_a_newline = FALSE,
                                !.column = 1, !.line = @ + 1]
                 ELSE [t EXCEPT !.column = @ + 1]
    IN  IF c \in {LF, "\r"} THEN [moved EXCEPT !.last_character_was_a_newline = TRUE] ELSE moved

\* Iterator::next, the Some arm: the tracker after character c was consumed
Advance(t, c) ==
    LET moved == IF t.last_character_was_a_newline
                 THEN [t EXCEPT !.last_character_was_a_newline = FALSE,
                                !.column = 1, !.line = @ + 1]
                 ELSE [t EXCEPT !.column = @ + 1]
    IN  IF c = LF THEN [moved EXCEPT !.last_character_was_a_newline = TRUE] ELSE moved

\* TextPosition of a tracker
text_position(w) == [line |-> w.line, column |-> w.column]

Idle == "idle"

\* The parser variables while only the trackers run.
ParserIdle ==
    /\ input = <<>>
    /\ program = <<>>
    /\ program_wrapper = [it |-> 0, line |-> 0, column |-> 1, last_character_was_a_newline |-> TRUE]
    /\ list = <<>>
    /\ frames = <<>>
    /\ current_character = None
    /\ dispatched = [character |-> "", index |-> None, depth |-> 0]
    /\ parsed_lisp_object = [kind |-> "none", object |-> <<>>, start |-> None, next |-> None]
    /\ result = [kind |-> "none", list |-> <<>>, error |-> "", position |-> [line |-> 0, column |-> 0]]
    /\ pc = Idle
    /\ round = 1
    /\ first = <<>>

InitTracker ==
    /\ consumed = <<>>
    /\ tracker = WrapperNew
    /\ lib_tracker = LibNew
    /\ ParserIdle

\* One call of next() on each tracker, over the same text.
TrackerNext ==
    /\ Len(consumed) < MaxTrack
    /\ \E c \in TrackerChars :
        /\ consumed' = Append(consumed, c)
        /\ tracker' = Advance(tracker, c)
        /\ lib_tracker' = Advance(lib_tracker, c)
    /\ UNCHANGED parser_vars

NextTracker == TrackerNext

SpecTracker == InitTracker /\ [][NextTracker]_vars

----------------------------------------------------------------------------
\* Positions by counting, for the statements about positions

\* The line-feeds among the first k-1 characters of s
LineFeedsBefore(s, k) == {j \in 1..(k - 1) : s[j] = LF}

Max(S) == CHOOSE x \in S : \A y \in S : y <= x

\* The position of the k-th character of s: lines are ended by line-feeds only.
PositionOf(s, k) ==
    [line |-> 1 + Cardinality(LineFeedsBefore(s, k)),
     column |-> k - Max(LineFeedsBefore(s, k) \cup {0})]

\* C9: after the k-th character was consumed, the tracker of ProgramWrapper::new
\* shows the position of that character: line 1 + the line-feeds before it,
\* column counted from the last of them; both are at least 1.
C9_TrackerShowsConsumedCharacter ==
    consumed # <<>> =>
        /\ text_position(tracker) = PositionOf(consumed, Len(consumed))
        /\ tracker.line >= 1
        /\ tracker.column >= 1

\* A character follows a line-feed that follows a tab and a carriage return.
C9_Witness ==
    /\ Len(consumed) >= 4
    /\ \E j \in 1..(Len(consumed) - 1) :
        /\ consumed[j] = LF
        /\ j > 1
        /\ \E i \in 1..(j - 1) : consumed[i] = "\r"
        /\ \E i \in 1..(j - 1) : consumed[i] = "\t"
    /\ consumed[Len(consumed) - 1] = LF
    /\ text_position(tracker) = [line |-> 2, column |-> 1]

\* C10: the tracker started at (1, 1, false) and the tracker started at
\* (0, 1, true) show the same position after each consumed character.
C10_TrackersAgree ==
    consumed # <<>> => text_position(lib_tracker) = text_position(tracker)

----------------------------------------------------------------------------
\* Values

\* LispObject::String(s), one token
String(s) == <<[tag |-> "String", string |-> s]>>

\* LispObject::List(v): the tokens of v between ListBegin and ListEnd
List(v) == <<[tag |-> "ListBegin", string |-> <<>>]>> \o v \o <<[tag |-> "ListEnd", string |-> <<>>]>>

NoPosition == [line |-> 0, column |-> 0]
NoResult == [kind |-> "none", list |-> <<>>, error |-> "", position |-> NoPosition]
\* Ok(list)
Ok(v) == [kind |-> "ok", list |-> v, error |-> "", position |-> NoPosition]
\* Err(LispParsingError::e { position })
Err(e, p) == [kind |-> "err", list |-> <<>>, error |-> e, position |-> p]
\* The call did not return: a slice by byte index panicked.
Panic == [kind |-> "panic", list |-> <<>>, error |-> "", position |-> NoPosition]

NoObject == [kind |-> "none", object |-> <<>>, start |-> None, next |-> None]
NoDispatch == [character |-> "", index |-> None, depth |-> 0]

\* All texts of at most n characters
Texts(n) == UNION {[1..m -> ParserChars] : m \in 0..n}

----------------------------------------------------------------------------
\* src/src/lisp_parser.rs

\* LispParser::new with ProgramWrapper::new
NewWrapper == [it |-> 0, line |-> 0, column |-> 1, last_character_was_a_newline |-> TRUE]

\* Iterator::next when a character is left: the wrapper after consuming it.
\* w.it counts the characters consumed, so the character returned is s[w.it + 1].
IterNext(s, w) ==
    LET t == Advance([line |-> w.line, column |-> w.column,
                      last_character_was_a_newline |-> w.last_character_was_a_newline],
                     s[w.it + 1])
    IN  [it |-> w.it + 1, line |-> t.line, column |-> t.column,
         last_character_was_a_newline |-> t.last_character_was_a_newline]

\* self.next() as the look-ahead of a returned object: the wrapper and the character, None at the end
NextCharacter(s, w) ==
    IF w.it < Len(s) THEN [w |-> IterNext(s, w), c |-> w.it + 1] ELSE [w |-> w, c |-> None]

\* A slice that leaves out the byte at the end index.
SliceExclusive(s, start_index, to) == StrRange(s, start_index, to)

\* Slicer::slice: self.string[self.start_index..=to]
Slice(s, start_index, to) ==
    IF to + 1 <= ByteLen(s) THEN StrRange(s, start_index, to + 1)
    ELSE [ok |-> FALSE, string |-> <<>>]

RECURSIVE skip_whitespaces(_, _, _)
\* skip_whitespaces: from the look-ahead character k, the first character that is
\* no whitespace (None when the text ends first), and the wrapper after the reads.
skip_whitespaces(s, w, k) ==
    IF ~is_whitespace(s[k]) THEN [w |-> w, c |-> k]
    ELSE IF w.it < Len(s) THEN skip_whitespaces(s, IterNext(s, w), w.it + 1)
    ELSE [w |-> w, c |-> None]

\* The condition that ends a word in parse_word
is_terminator(c) == is_whitespace(c) \/ c = QUOTE \/ c = ")" \/ c = "("

RECURSIVE word_loop(_, _, _)
\* The for loop of parse_word: the terminator met (None at the end of the text),
\* last_successful_index as a character number, and the wrapper after the reads.
word_loop(s, w, last) ==
    IF w.it >= Len(s) THEN [w |-> w, terminator |-> None, last |-> last]
    ELSE LET w2 == IterNext(s, w)
         IN  IF is_terminator(s[w2.it])
             THEN [w |-> w2, terminator |-> w2.it, last |-> last]
             ELSE word_loop(s, w2, w2.it)

\* parse_word(word_beginning_index): the atom (or a panic of the slice), the
\* look-ahead character and the wrapper.
parse_word(s, w, k) ==
    LET l == word_loop(s, w, k)
        a == Slice(s, ByteIndex(s, k), ByteIndex(s, l.last))
    IN  IF l.terminator # None
        THEN [ok |-> a.ok, string |-> a.string, next |-> l.terminator, w |-> l.w]
        ELSE [ok |-> TRUE, string |-> s, next |-> None, w |-> l.w]

RECURSIVE string_loop(_, _)
\* The for loop of parse_string: whether a closing quote was met, and the wrapper
\* after the reads (the quote is character w.it of the text).
string_loop(s, w) ==
    IF w.it >= Len(s) THEN [w |-> w, found |-> FALSE]
    ELSE LET w2 == IterNext(s, w)
         IN  IF s[w2.it] = QUOTE THEN [w |-> w2, found |-> TRUE] ELSE string_loop(s, w2)

\* parse_string(opening_quote_index)
parse_string(s, w, k) ==
    LET opening_quote_position == text_position(w)
        l == string_loop(s, w)
        a == Slice(s, ByteIndex(s, k), ByteIndex(s, l.w.it))
        n == NextCharacter(s, l.w)
    IN  IF l.found
        THEN [found |-> TRUE, ok |-> a.ok, string |-> a.string, next |-> n.c, w |-> n.w,
              position |-> opening_quote_position]
        ELSE [found |-> FALSE, ok |-> TRUE, string |-> <<>>, next |-> None, w |-> l.w,
              position |-> opening_quote_position]

\* parse_list that reads its first character before it notes where it opened.
parse_list_enter_late(s, w) ==
    LET n == NextCharacter(s, w)
    IN  [opening_parenthesis_position |-> text_position(n.w), next |-> n.c, w |-> n.w]

\* The head of parse_list: opening_parenthesis_position, then the first character.
parse_list_enter(s, w) ==
    LET n == NextCharacter(s, w)
    IN  [opening_parenthesis_position |-> text_position(w), next |-> n.c, w |-> n.w]

Init ==
    /\ input \in Texts(MaxLen)
    /\ program = input
    /\ program_wrapper = NewWrapper
    /\ list = <<>>
    /\ frames = <<>>
    /\ current_character = None
    /\ dispatched = NoDispatch
    /\ parsed_lisp_object = NoObject
    /\ result = NoResult
    /\ pc = "start"
    /\ round = 1
    /\ first = <<>>
    /\ consumed = <<>>
    /\ tracker = WrapperNew
    /\ lib_tracker = LibNew

\* The call ends with value r.
Return(r) ==
    /\ result' = r
    /\ pc' = "done"
    /\ current_character' = None

\* parse_program up to its loop: the first self.next()
Start ==
    /\ pc = "start"
    /\ LET n == NextCharacter(program, program_wrapper)
       IN  /\ program_wrapper' = n.w
           /\ IF n.c = None
              THEN Return(Ok(list))
              ELSE /\ current_character' = n.c
                   /\ pc' = "loop"
                   /\ UNCHANGED result
    /\ parsed_lisp_object' = NoObject
    /\ UNCHANGED <<input, program, list, frames, dispatched, round, first>>
    /\ UNCHANGED tracker_vars

\* The loops of parse_program and parse_list on Ok(Some(parsed_lisp_object)):
\* object obj with look-ahead next came back to the loop that runs under the
\* frames fs; at the end of the text parse_program returns its list and
\* parse_list fails, otherwise the object is pushed.
Deliver(obj, next, fs) ==
    IF fs = <<>>
    THEN /\ frames' = fs
         /\ IF next = None
            THEN /\ Return(Ok(list))
                 /\ UNCHANGED list
            ELSE /\ current_character' = next
                 /\ list' = list \o obj
                 /\ UNCHANGED <<result, pc>>
    ELSE /\ UNCHANGED list
         /\ IF next = None
            THEN /\ Return(Err("UnclosedParenthesis", fs[Len(fs)].opening_parenthesis_position))
                 /\ frames' = fs
            ELSE /\ current_character' = next
                 /\ frames' = [fs EXCEPT ![Len(fs)].list = @ \o obj]
                 /\ UNCHANGED <<result, pc>>

\* What parse_object's skip_whitespaces finds from the look-ahead character.
Dispatch == skip_whitespaces(program, program_wrapper, current_character)

Dispatched(d) ==
    [character |-> program[d.c], index |-> d.c, depth |-> Len(frames)]

\* parse_object returns Ok(None): only whitespace was left.
EndOfInput ==
    /\ pc = "loop"
    /\ Dispatch.c = None
    /\ program_wrapper' = Dispatch.w
    /\ IF frames = <<>>
       THEN Return(Ok(list))
       ELSE Return(Err("UnclosedParenthesis", frames[Len(frames)].opening_parenthesis_position))
    /\ parsed_lisp_object' = NoObject
    /\ UNCHANGED <<input, program, list, frames, dispatched, round, first>>
    /\ UNCHANGED tracker_vars

\* parse_object on '(': parse_list starts.
OpenList ==
    /\ pc = "loop"
    /\ Dispatch.c # None
    /\ program[Dispatch.c] = "("
    /\ LET e == parse_list_enter(program, Dispatch.w)
       IN  /\ program_wrapper' = e.w
           /\ dispatched' = Dispatched(Dispatch)
           /\ IF e.next = None
              THEN /\ Return(Err("UnclosedParenthesis", e.opening_parenthesis_position))
                   /\ UNCHANGED frames
              ELSE /\ frames' = Append(frames, [list |-> <<>>,
                                   opening_parenthesis_position |-> e.opening_parenthesis_position])
                   /\ current_character' = e.next
                   /\ UNCHANGED <<result, pc>>
    /\ parsed_lisp_object' = NoObject
    /\ UNCHANGED <<input, program, list, round, first>>
    /\ UNCHANGED tracker_vars

\* parse_object on ')': UnexpectedClosingParenthesis, which the innermost
\* parse_list takes as its end and parse_program returns.
ClosingParenthesis ==
    /\ pc = "loop"
    /\ Dispatch.c # None
    /\ program[Dispatch.c] = ")"
    /\ dispatched' = Dispatched(Dispatch)
    /\ IF frames = <<>>
       THEN /\ Return(Err("UnexpectedClosingParenthesis", text_position(Dispatch.w)))
            /\ program_wrapper' = Dispatch.w
            /\ parsed_lisp_object' = NoObject
            /\ UNCHANGED <<list, frames>>
       ELSE LET n == NextCharacter(program, Dispatch.w)
                obj == List(frames[Len(frames)].list)
            IN  /\ program_wrapper' = n.w
                /\ parsed_lisp_object' = [kind |-> "list", object |-> obj,
                                          start |-> None, next |-> n.c]
                /\ Deliver(obj, n.c, SubSeq(frames, 1, Len(frames) - 1))
    /\ UNCHANGED <<input, program, round, first>>
    /\ UNCHANGED tracker_vars

\* parse_object on '"': parse_string.
QuotedString ==
    /\ pc = "loop"
    /\ Dispatch.c # None
    /\ program[Dispatch.c] = QUOTE
    /\ dispatched' = Dispatched(Dispatch)
    /\ LET r == parse_string(program, Dispatch.w, Dispatch.c)
       IN  /\ program_wrapper' = r.w
           /\ IF ~r.found
              THEN /\ Return(Err("UnclosedQuote", r.position))
                   /\ parsed_lisp_object' = NoObject
            /\ UNCHANGED <<list, frames>>
              ELSE IF ~r.ok
              THEN /\ Return(Panic)
                   /\ parsed_lisp_object' = NoObject
            /\ UNCHANGED <<list, frames>>
              ELSE /\ parsed_lisp_object' = [kind |-> "string", object |-> String(r.string),
                                             start |-> Dispatch.c, next |-> r.next]
                   /\ Deliver(String(r.string), r.next, frames)
    /\ UNCHANGED <<input, program, round, first>>
    /\ UNCHANGED tracker_vars

\* parse_object on any other character: parse_word.
Word ==
    /\ pc = "loop"
    /\ Dispatch.c # None
    /\ program[Dispatch.c] \notin {"(", ")", QUOTE}
    /\ dispatched' = Dispatched(Dispatch)
    /\ LET r == parse_word(program, Dispatch.w, Dispatch.c)
       IN  /\ program_wrapper' = r.w
           /\ IF ~r.ok
              THEN /\ Return(Panic)
                   /\ parsed_lisp_object' = NoObject
            /\ UNCHANGED <<list, frames>>
              ELSE /\ parsed_lisp_object' = [kind |-> "word", object |-> String(r.string),
                                             start |-> Dispatch.c, next |-> r.next]
                   /\ Deliver(String(r.string), r.next, frames)
    /\ UNCHANGED <<input, program, round, first>>
    /\ UNCHANGED tracker_vars

RECURSIVE Render(_)
\* The text of a tree: each atom verbatim, each list between '(' and ')',
\* one space between adjacent objects, nothing after the last.
Render(v) ==
    IF v = <<>> THEN <<>>
    ELSE LET h == Head(v)
             own == IF h.tag = "ListBegin" THEN <<"(">>
                    ELSE IF h.tag = "ListEnd" THEN <<")">>
                    ELSE h.string
             gap == IF Len(v) = 1 \/ h.tag = "ListBegin" \/ v[2].tag = "ListEnd"
                    THEN <<>> ELSE <<" ">>
         IN  own \o gap \o Render(Tail(v))

\* A second call of LispParser::new(text).parse_program(), on the rendering of
\* the tree the first call returned.
Reparse ==
    /\ pc = "done"
    /\ round = 1
    /\ result.kind = "ok"
    /\ round' = 2
    /\ first' = result.list
    /\ input' = Render(result.list)
    /\ program' = input'
    /\ program_wrapper' = NewWrapper
    /\ list' = <<>>
    /\ frames' = <<>>
    /\ current_character' = None
    /\ dispatched' = NoDispatch
    /\ parsed_lisp_object' = NoObject
    /\ result' = NoResult
    /\ pc' = "start"
    /\ UNCHANGED tracker_vars

Next ==
    \/ Start
    \/ EndOfInput
    \/ OpenList
    \/ ClosingParenthesis
    \/ QuotedString
    \/ Word
    \/ Reparse

Spec == Init /\ [][Next]_vars

----------------------------------------------------------------------------
\* src/src/lib.rs, inline module lisp_parser: self.program is the text not yet
\* cut off, and program_wrapper.it counts the characters its iterator has read.

\* LispParser::new
LibNewWrapper == [it |-> 0, line |-> 1, column |-> 1, last_character_was_a_newline |-> FALSE]

\* set_program: the iterator starts again at the head of the new program.
set_program(w) == [w EXCEPT !.it = 0]

\* slice(to): program[..to] is returned and program[to..] becomes the program;
\* a panic when byte offset to is no character boundary of the program.
lib_slice(s, to) ==
    LET head == StrRange(s, 0, to)
        rest == StrRange(s, to, ByteLen(s))
    IN  [ok |-> head.ok /\ rest.ok, string |-> head.string, program |-> rest.string]

RECURSIVE lib_skip_whitespaces(_, _)
\* skip_whitespaces: reads on until a character that is no whitespace, which
\* becomes the head of the program (and is read again by the next next()).
lib_skip_whitespaces(s, w) ==
    IF w.it >= Len(s) THEN [program |-> s, w |-> w]
    ELSE LET w2 == IterNext(s, w)
         IN  IF ~is_whitespace(s[w2.it])
             THEN [program |-> SubSeq(s, w2.it, Len(s)), w |-> set_program(w2)]
             ELSE lib_skip_whitespaces(s, w2)

\* parse_word: the terminator's index less one cuts the program.
lib_parse_word(s, w) ==
    LET l == word_loop(s, w, None)
        a == lib_slice(s, ByteIndex(s, l.terminator) - 1)
    IN  IF l.terminator # None
        THEN [ok |-> a.ok, string |-> a.string, program |-> a.program, w |-> set_program(l.w)]
        ELSE [ok |-> TRUE, string |-> s, program |-> <<>>, w |-> set_program(l.w)]

\* parse_string: the closing quote's index cuts the program.
lib_parse_string(s, w) ==
    LET opening_quote_position == text_position(w)
        l == string_loop(s, w)
        a == lib_slice(s, ByteIndex(s, l.w.it))
    IN  IF l.found
        THEN [found |-> TRUE, ok |-> a.ok, string |-> a.string, program |-> a.program,
              w |-> set_program(l.w), position |-> opening_quote_position]
        ELSE [found |-> FALSE, ok |-> TRUE, string |-> <<>>, program |-> s,
              w |-> l.w, position |-> opening_quote_position]

RECURSIVE FrameObjects(_)
\* The objects in the lists of the active parse_list calls
FrameObjects(fs) == IF fs = <<>> THEN 0 ELSE Len(Head(fs).list) + FrameObjects(Tail(fs))

\* The objects in all the lists under construction
ObjectCount == Len(list) + FrameObjects(frames)

InitLib ==
    /\ input \in Texts(MaxLen)
    /\ program = input
    /\ program_wrapper = LibNewWrapper
    /\ list = <<>>
    /\ frames = <<>>
    /\ current_character = None
    /\ dispatched = NoDispatch
    /\ parsed_lisp_object = NoObject
    /\ result = NoResult
    /\ pc = "loop"
    /\ round = 1
    /\ first = <<>>
    /\ consumed = <<>>
    /\ tracker = WrapperNew
    /\ lib_tracker = LibNew

\* parse_object's skip_whitespaces
LibSkipped == lib_skip_whitespaces(program, program_wrapper)

\* The character parse_object's self.next() returns after skip_whitespaces, "" at the end
LibCharacter ==
    IF LibSkipped.w.it < Len(LibSkipped.program)
    THEN LibSkipped.program[LibSkipped.w.it + 1] ELSE ""

\* The wrapper after that self.next()
LibAfterNext == IterNext(LibSkipped.program, LibSkipped.w)

LibDispatched ==
    [character |-> LibCharacter,
     index |-> Len(input) - Len(LibSkipped.program) + LibSkipped.w.it + 1,
     depth |-> Len(frames)]

\* list.push(object) in the loop of parse_program or of the innermost parse_list
LibPush(obj) ==
    IF frames = <<>>
    THEN /\ list' = list \o obj
         /\ UNCHANGED frames
    ELSE /\ frames' = [frames EXCEPT ![Len(frames)].list = @ \o obj]
         /\ UNCHANGED list

\* parse_object returns Ok(None): parse_program returns its list, parse_list fails.
LibEndOfInput ==
    /\ pc = "loop"
    /\ LibCharacter = ""
    /\ program' = LibSkipped.program
    /\ program_wrapper' = LibSkipped.w
    /\ IF frames = <<>>
       THEN Return(Ok(list))
       ELSE Return(Err("UnclosedParenthesis", frames[Len(frames)].opening_parenthesis_position))
    /\ UNCHANGED <<input, list, frames, dispatched, parsed_lisp_object, round, first>>
    /\ UNCHANGED tracker_vars

\* parse_object on '(': parse_list starts its loop.
LibOpenList ==
    /\ pc = "loop"
    /\ LibCharacter = "("
    /\ dispatched' = LibDispatched
    /\ program' = LibSkipped.program
    /\ program_wrapper' = LibAfterNext
    /\ frames' = Append(frames, [list |-> <<>>,
                     opening_parenthesis_position |-> text_position(LibAfterNext)])
    /\ UNCHANGED <<input, list, current_character, parsed_lisp_object, result, pc, round, first>>
    /\ UNCHANGED tracker_vars

\* parse_object on ')': Err(UnclosedParenthesis) with the position read before
\* self.next(); no arm of parse_list takes it, so it is what the call returns.
LibClosingParenthesis ==
    /\ pc = "loop"
    /\ LibCharacter = ")"
    /\ dispatched' = LibDispatched
    /\ program' = LibSkipped.program
    /\ program_wrapper' = LibAfterNext
    /\ Return(Err("UnclosedParenthesis", text_position(LibSkipped.w)))
    /\ UNCHANGED <<input, list, frames, parsed_lisp_object, round, first>>
    /\ UNCHANGED tracker_vars

\* parse_object on '"': parse_string.
LibQuotedString ==
    /\ pc = "loop"
    /\ LibCharacter = QUOTE
    /\ ObjectCount < MaxObjects
    /\ dispatched' = LibDispatched
    /\ LET r == lib_parse_string(LibSkipped.program, LibAfterNext)
       IN  /\ program' = r.program
           /\ program_wrapper' = r.w
           /\ IF ~r.found
              THEN /\ Return(Err("UnclosedQuote", r.position))
                   /\ UNCHANGED <<list, frames>>
              ELSE IF ~r.ok
              THEN /\ Return(Panic)
                   /\ UNCHANGED <<list, frames>>
              ELSE /\ LibPush(String(r.string))
                   /\ UNCHANGED <<current_character, result, pc>>
    /\ UNCHANGED <<input, parsed_lisp_object, round, first>>
    /\ UNCHANGED tracker_vars

\* parse_object on any other character: parse_word.
LibWord ==
    /\ pc = "loop"
    /\ LibCharacter \notin {"", "(", ")", QUOTE}
    /\ ObjectCount < MaxObjects
    /\ dispatched' = LibDispatched
    /\ LET r == lib_parse_word(LibSkipped.program, LibAfterNext)
       IN  /\ program' = r.program
           /\ program_wrapper' = r.w
           /\ IF ~r.ok
              THEN /\ Return(Panic)
                   /\ UNCHANGED <<list, frames>>
              ELSE /\ LibPush(String(r.string))
                   /\ UNCHANGED <<current_character, result, pc>>
    /\ UNCHANGED <<input, parsed_lisp_object, round, first>>
    /\ UNCHANGED tracker_vars

NextLib ==
    \/ LibEndOfInput
    \/ LibOpenList
    \/ LibClosingParenthesis
    \/ LibQuotedString
    \/ LibWord

SpecLib == InitLib /\ [][NextLib]_vars

----------------------------------------------------------------------------
\* The grammar, read off the input text, for the statements about results

\* The characters that cannot be part of a word
Delimiters == {" ", LF, "\t", "\r", "(", ")", QUOTE}

Min(S) == CHOOSE x \in S : \A y \in S : x <= y

\* The first '"' after character k of s, None when there is none
FirstQuoteAfter(s, k) ==
    LET Q == {j \in (k + 1)..Len(s) : s[j] = QUOTE}
    IN  IF Q = {} THEN None ELSE Min(Q)

\* The last character of the maximal run of word characters that starts at k
WordEnd(s, k) == Max({m \in k..Len(s) : \A j \in k..m : s[j] \notin Delimiters})

RECURSIVE Objects(_, _)
\* The objects of s from character i on, in source order, flat
Objects(s, i) ==
    IF i > Len(s) THEN <<>>
    ELSE IF s[i] \in {" ", LF, "\t", "\r"} THEN Objects(s, i + 1)
    ELSE IF s[i] = "(" THEN <<[tag |-> "ListBegin", string |-> <<>>]>> \o Objects(s, i + 1)
    ELSE IF s[i] = ")" THEN <<[tag |-> "ListEnd", string |-> <<>>]>> \o Objects(s, i + 1)
    ELSE IF s[i] = QUOTE
    THEN IF FirstQuoteAfter(s, i) = None THEN <<>>
         ELSE <<[tag |-> "String", string |-> SubSeq(s, i, FirstQuoteAfter(s, i))]>>
              \o Objects(s, FirstQuoteAfter(s, i) + 1)
    ELSE <<[tag |-> "String", string |-> SubSeq(s, i, WordEnd(s, i))]>>
         \o Objects(s, WordEnd(s, i) + 1)

RECURSIVE Fault(_, _, _)
\* The fault of s met first when scanning from character i with the lists opened
\* at the characters in opens still open: its kind and the position of the
\* construct it comes from; kind "" when the text has none.
Fault(s, i, opens) ==
    IF i > Len(s)
    THEN IF opens = <<>> THEN [error |-> "", position |-> NoPosition]
         ELSE [error |-> "UnclosedParenthesis", position |-> PositionOf(s, opens[Len(opens)])]
    ELSE IF s[i] = "(" THEN Fault(s, i + 1, Append(opens, i))
    ELSE IF s[i] = ")"
    THEN IF opens = <<>>
         THEN [error |-> "UnexpectedClosingParenthesis", position |-> PositionOf(s, i)]
         ELSE Fault(s, i + 1, SubSeq(opens, 1, Len(opens) - 1))
    ELSE IF s[i] = QUOTE
    THEN IF FirstQuoteAfter(s, i) = None
         THEN [error |-> "UnclosedQuote", position |-> PositionOf(s, i)]
         ELSE Fault(s, FirstQuoteAfter(s, i) + 1, opens)
    ELSE Fault(s, i + 1, opens)

\* C1: a call that returns Ok returns every top-level object of the input, in
\* source order, the one that ends on the last character included.
C1_OkHoldsEveryObject ==
    (pc = "done" /\ result.kind = "ok") => result.list = Objects(input, 1)

\* C3: a returned error carries the position of the construct it comes from:
\* the opening quote, the '(' of the innermost list still open, or the ')' met
\* with no list open.
C3_ErrorCarriesOriginPosition ==
    (pc = "done" /\ result.kind = "err") =>
        [error |-> result.error, position |-> result.position] = Fault(input, 1, <<>>)

\* The end of the text is met in a list nested in another, on the second line:
\* the error names the inner '(' and not the outer one.
C3_Witness ==
    /\ pc = "done"
    /\ result.error = "UnclosedParenthesis"
    /\ frames # <<>>
    /\ result.position.line = 2
    /\ result.position # frames[Len(frames)].opening_parenthesis_position

\* C5: the atom parse_word returns is the maximal run of word characters from
\* the dispatch character, and the character that ended it is the look-ahead
\* the loop dispatches on next.
C5_WordIsMaximalRun ==
    parsed_lisp_object.kind = "word" =>
        LET k == parsed_lisp_object.start
            m == WordEnd(input, k)
        IN  /\ parsed_lisp_object.object = String(SubSeq(input, k, m))
            /\ parsed_lisp_object.next = IF m < Len(input) THEN m + 1 ELSE None
            /\ pc = "loop" => current_character = m + 1

\* C6: the atom parse_string returns is the input from the opening quote through
\* the first following quote, it is pushed on the list that was innermost when
\* the quote opened, and the character after the closing quote is dispatched next.
C6_QuotedAtomIsVerbatim ==
    parsed_lisp_object.kind = "string" =>
        LET k == parsed_lisp_object.start
            j == FirstQuoteAfter(input, k)
            innermost == IF frames = <<>> THEN list ELSE frames[Len(frames)].list
        IN  /\ j # None
            /\ parsed_lisp_object.object = String(SubSeq(input, k, j))
            /\ parsed_lisp_object.next = IF j < Len(input) THEN j + 1 ELSE None
            /\ Len(frames) = dispatched.depth
            /\ pc = "loop" =>
                /\ current_character = j + 1
                /\ innermost # <<>>
                /\ <<innermost[Len(innermost)]>> = String(SubSeq(input, k, j))

\* A quoted atom that holds a ')' came back inside an open list, which stays open.
C6_Witness ==
    /\ parsed_lisp_object.kind = "string"
    /\ pc = "loop"
    /\ frames # <<>>
    /\ \E i \in 1..Len(parsed_lisp_object.object[1].string) :
        parsed_lisp_object.object[1].string[i] = ")"

\* C7: the rendering of a returned tree parses to the same tree.
C7_ReparseGivesSameTree ==
    (round = 2 /\ pc = "done") => result = Ok(first)

\* C8: the call returns a value for every input; no slice panics.
C8_NeverAborts ==
    result.kind # "panic"

\* The input the lib.rs parser has not read yet
Remaining == Len(program) - program_wrapper.it

\* C2: a ')' dispatched while a list is open closes the innermost list and is
\* no error; a ')' dispatched with no list open makes the call return
\* UnexpectedClosingParenthesis with the position of that ')'.
C2_ClosingParenthesisClosesOrIsUnexpected ==
    dispatched.character = ")" =>
        IF dispatched.depth > 0
        THEN /\ result.kind = "none"
             /\ Len(frames) = dispatched.depth - 1
        ELSE result = Err("UnexpectedClosingParenthesis", PositionOf(input, dispatched.index))

\* C4: every turn of the loops of parse_program and parse_list leaves less input
\* to read than it found.
C4_EveryTurnShortensInput ==
    [][(pc = "loop" /\ pc' = "loop") => Remaining' < Remaining]_vars

====
